---- MODULE Spec2Model ----
(***************************************************************************)
(* Model of vote.py: the survey application of Key Dynamics Solutions.     *)
(* The store (three worksheets), the process-wide st.cache_data cache and  *)
(* one st.session_state per browser session are the state; every script   *)
(* run of a page (login_page, questions_page, success_page) is an action.  *)
(* Script runs of different sessions run in different threads, so the      *)
(* submit handler is cut at its store calls: append, scan, cell write and  *)
(* cache clear.                                                            *)
(***************************************************************************)
EXTENDS Integers, Sequences, FiniteSets, TLC

VARIABLES
    employees,    \* worksheet employee_details: sequence of [name, email, status]
    questions,    \* worksheet questions: sequence of [question_id]
    responses,    \* worksheet employee_responses: sequence of appended rows
    cacheEmp,     \* st.cache_data entry of fetch_employees: <<>> or <<rows>>
    cacheQ,       \* st.cache_data entry of fetch_questions: <<>> or <<rows>>
    sess,         \* st.session_state and the running script's position, per session
    sheets,       \* the names of the worksheets that exist in the spreadsheet
    submitted     \* history: the submissions that reached the success page

vars == <<employees, questions, responses, cacheEmp, cacheQ, sess, sheets,
          submitted>>

-----------------------------------------------------------------------------
(* Bounds and constants *)

NumSessions == 2
MaxBatches == 2
ActiveCap == 6

Sessions == 1..NumSessions

\* Python's None
None == "<None>"

\* An email is a sequence of tokens; REQUIRED_DOMAIN is the two tokens below.
REQUIRED_DOMAIN == <<"@", "keydynamicssolutions">>

-----------------------------------------------------------------------------
(* String helpers: str.lower, str.strip, the `in` substring test, str(int) *)

LowerTok(t) ==
    CASE t = "JANE.DOE" -> "jane.doe"
      [] t = "KEYDYNAMICSSOLUTIONS" -> "keydynamicssolutions"
      [] t = "YES" -> "yes"
      [] OTHER -> t

Lower(e) == [i \in 1..Len(e) |-> LowerTok(e[i])]

RECURSIVE LStrip(_)
LStrip(e) == IF e # <<>> /\ Head(e) = " " THEN LStrip(Tail(e)) ELSE e

RECURSIVE RStrip(_)
RStrip(e) ==
    IF e # <<>> /\ e[Len(e)] = " " THEN RStrip(SubSeq(e, 1, Len(e) - 1)) ELSE e

Strip(e) == RStrip(LStrip(e))

\* e.strip().lower()
Norm(e) == Lower(Strip(e))

\* d in e
Contains(e, d) ==
    \E i \in 0..(Len(e) - Len(d)) : SubSeq(e, i + 1, i + Len(d)) = d

\* str(question_id)
Str(n) ==
    CASE n = 1 -> "1" [] n = 2 -> "2" [] n = 3 -> "3" [] n = 4 -> "4"
      [] n = 5 -> "5" [] n = 6 -> "6" [] n = 7 -> "7" [] OTHER -> "?"

Min(a, b) == IF a < b THEN a ELSE b

-----------------------------------------------------------------------------
(* Store contents the application starts from *)

JaneEmail == <<"jane.doe", "@", "keydynamicssolutions">>
JohnEmail == <<"john.smith", "@", "keydynamicssolutions">>

\* sample_employees of initialize_sheets
SeedEmployees ==
    << [name |-> "Jane Doe", email |-> JaneEmail, status |-> "no"],
       [name |-> "John Smith", email |-> JohnEmail, status |-> "no"] >>

\* A roster edited in the sheet: an email stored in capitals, two rows that carry
\* the same name, and an employee marked completed with a capitalised status.
EditedEmployees ==
    << [name |-> "Jane Doe",
        email |-> <<"JANE.DOE", "@", "keydynamicssolutions">>, status |-> "no"],
       [name |-> "Jane Doe",
        email |-> <<"j.doe2", "@", "keydynamicssolutions">>, status |-> "no"],
       [name |-> "John Smith", email |-> JohnEmail, status |-> "YES"] >>

\* A roster with a single row
LoneEmployee == << [name |-> "Jane Doe", email |-> JaneEmail, status |-> "no"] >>

QuestionRows(n) == [i \in 1..n |-> [question_id |-> i]]

\* The worksheets of the application
SheetNames == {"employee_details", "questions", "employee_responses"}

\* The store of the concurrent specification, and a spreadsheet that has none of
\* the worksheets yet
Stores ==
    { [employees |-> SeedEmployees, questions |-> QuestionRows(2),
       sheets |-> SheetNames],
      [employees |-> <<>>, questions |-> <<>>, sheets |-> {}] }

\* The stores of the specification of one session: more questions than the cap
\* of six, the edited roster, a roster of one employee, a questions sheet that
\* holds its header only, and a spreadsheet without the responses worksheet
SoloStores ==
    { [employees |-> SeedEmployees, questions |-> QuestionRows(7),
       sheets |-> SheetNames],
      [employees |-> EditedEmployees, questions |-> QuestionRows(2),
       sheets |-> SheetNames],
      [employees |-> LoneEmployee, questions |-> QuestionRows(2),
       sheets |-> SheetNames],
      [employees |-> SeedEmployees, questions |-> QuestionRows(0),
       sheets |-> SheetNames],
      [employees |-> SeedEmployees, questions |-> QuestionRows(2),
       sheets |-> SheetNames \ {"employee_responses"}] }

\* What a user may type into the login form
EmailInputs ==
    { <<>>,
      JaneEmail,
      JohnEmail,
      <<"JANE.DOE", "@", "keydynamicssolutions">>,
      <<" ", "jane.doe", "@", "keydynamicssolutions", " ">>,
      <<"jane.doe", "@", "KEYDYNAMICSSOLUTIONS">>,
      <<"jane.doe", "@", "example.com">>,
      <<"j.doe2", "@", "keydynamicssolutions">>,
      <<"bob", "@", "keydynamicssolutions">> }

-----------------------------------------------------------------------------
(* Data access layer *)

\* fetch_employees under @st.cache_data: the rows and the cache entry after the
\* call. A failed read returns [] and that return value is cached like any other.
FetchEmployees(ok) ==
    IF cacheEmp # <<>> THEN [rows |-> cacheEmp[1], cache |-> cacheEmp]
    ELSE LET rows == IF ok THEN employees ELSE <<>>
         IN  [rows |-> rows, cache |-> <<rows>>]

\* fetch_questions under @st.cache_data
FetchQuestions(ok) ==
    IF cacheQ # <<>> THEN [rows |-> cacheQ[1], cache |-> cacheQ]
    ELSE LET rows == IF ok THEN questions ELSE <<>>
         IN  [rows |-> rows, cache |-> <<rows>>]

\* the row [email, name, question_id, name_of_person_in_response] of append_responses
ResponseRow(r) ==
    <<r.email, r.name, r.question_id, r.name_of_person_in_response>>

\* Faulty variant: the scan stops at the first record whatever its email.
ScanIndexFirst(data, email) == IF data = <<>> THEN 0 ELSE 2

\* the scan of update_employee_status: the sheet row (header is row 1) of the first
\* record whose email matches, 0 when there is none
ScanIndex(data, email) ==
    LET hits == {i \in 1..Len(data) : Norm(data[i].email) = Norm(email)}
    IN  IF hits = {} THEN 0
        ELSE (CHOOSE i \in hits : \A j \in hits : i <= j) + 1

\* Faulty variant: the header row is not counted, so the cell of the next row is
\* written.
UpdateCellNoHeader(table, idx) ==
    IF idx \in 1..Len(table)
    THEN [table EXCEPT ![idx].status = "yes"]
    ELSE table

\* ws.update_cell(idx, 3, 'yes')
UpdateCell(table, idx) ==
    IF idx - 1 \in 1..Len(table)
    THEN [table EXCEPT ![idx - 1].status = "yes"]
    ELSE table

-----------------------------------------------------------------------------
(* main: the first script run of a session, and initialize_sheets *)

\* initialize_sheets: "ok" when it returns, "error" when it ends in st.error and
\* st.stop. The name gspread is bound in get_gspread_client only, so evaluating
\* `except gspread.WorksheetNotFound` for a worksheet that is missing raises
\* NameError, which the outer handler reports: no worksheet is ever added.
InitializeResult(present, ok) ==
    IF ok /\ SheetNames \subseteq present THEN "ok" ELSE "error"

\* The first script run of session s: initialize_sheets, then
\* sheets_initialized = True and page = 'login'. A run stopped by st.stop sets
\* neither, and the next run starts over.
InitializeSheets(s, ok) ==
    /\ ~sess[s].sheets_initialized
    /\ IF InitializeResult(sheets, ok) = "ok"
       THEN sess' = [sess EXCEPT ![s].sheets_initialized = TRUE,
                                 ![s].page = "login", ![s].msg = ""]
       ELSE sess' = [sess EXCEPT ![s].msg = "init_error"]
    /\ UNCHANGED <<sheets, employees, questions, responses, cacheEmp, cacheQ,
                   submitted>>

-----------------------------------------------------------------------------
(* login_page *)

\* the position of the employee found by the login loop, 0 when it finds none
FindEmployee(rows, email) ==
    LET hits == {i \in 1..Len(rows) : Norm(rows[i].email) = Norm(email)}
    IN  IF hits = {} THEN 0
        ELSE CHOOSE i \in hits : \A j \in hits : i <= j

\* Faulty variant: the domain is not checked.
EmailNonEmpty(email) == email # <<>>

\* the two validation returns of login_page
EmailValid(email) == email # <<>> /\ Contains(email, REQUIRED_DOMAIN)

\* found.get('status', '').lower() == 'yes'
IsCompleted(row) == LowerTok(row.status) = "yes"

\* The outcome of a submitted login form: the error shown, or "ok"
LoginResult(email, rows) ==
    IF email = <<>> THEN "enter_email"
    ELSE IF ~EmailValid(email) THEN "invalid_domain"
    ELSE LET found == FindEmployee(rows, email)
         IN  IF found = 0 THEN "not_found"
             ELSE IF IsCompleted(rows[found]) THEN "already_completed"
             ELSE "ok"

\* The user submits the login form with `email`.
Login(s, email, ok) ==
    /\ sess[s].page = "login"
    /\ sess[s].pc = "idle"
    /\ IF ~EmailValid(email)
       THEN /\ sess' = [sess EXCEPT ![s].msg = LoginResult(email, <<>>)]
            /\ UNCHANGED <<sheets, employees, questions, responses, cacheEmp, cacheQ,
                           submitted>>
       ELSE LET f == FetchEmployees(ok)
                found == FindEmployee(f.rows, email)
            IN  /\ cacheEmp' = f.cache
                /\ IF LoginResult(email, f.rows) = "ok"
                   THEN sess' = [sess EXCEPT
                            ![s].keys = @ \cup {"user_email", "user_name"},
                            ![s].user_email = f.rows[found].email,
                            ![s].user_name = f.rows[found].name,
                            ![s].page = "questions",
                            ![s].msg = ""]
                   ELSE sess' = [sess EXCEPT
                            ![s].msg = LoginResult(email, f.rows)]
                /\ UNCHANGED <<sheets, employees, questions, responses, cacheQ, submitted>>

-----------------------------------------------------------------------------
(* questions_page *)

\* Faulty variant: no cap of six.
ActiveQuestionsAll(qs) == qs

\* questions[:6]
ActiveQuestions(qs) == SubSeq(qs, 1, Min(ActiveCap, Len(qs)))

\* Faulty variant: the current user is not excluded.
OtherNamesAll(rows, user_email) == {rows[i].name : i \in 1..Len(rows)}

\* names of the other employees, as a set (the code sorts it for display only)
OtherNames(rows, user_email) ==
    {rows[i].name : i \in {j \in 1..Len(rows) :
                              Norm(rows[j].email) # Norm(user_email)}}

\* selections.get(qid)
SelGet(sel, qid) == IF qid \in DOMAIN sel THEN sel[qid] ELSE None

\* Faulty variant: any() in place of all().
AllSelectedAny(sel) == \E k \in DOMAIN sel : sel[k] # None

\* all(v is not None for v in selections.values())
AllSelected(sel) == \A k \in DOMAIN sel : sel[k] # None

\* sum(1 for v in selections.values() if v is None)
UnansweredCount(sel) == Cardinality({k \in DOMAIN sel : sel[k] = None})

\* One pass over the selectboxes: `change` is <<>> or <<qid, choice>>, the widget
\* the user changed. An untouched widget shows the stored selection when it is one
\* of the names, and "-- Select a person --" otherwise.
Selectboxes(sel0, active, names, change) ==
    LET qids == {Str(active[i].question_id) : i \in 1..Len(active)}
        shown(qid) == IF change # <<>> /\ change[1] = qid THEN change[2]
                      ELSE IF SelGet(sel0, qid) \in names THEN SelGet(sel0, qid)
                      ELSE None
    IN  [qid \in (DOMAIN sel0) \cup qids |->
            IF qid \in qids THEN shown(qid) ELSE sel0[qid]]

\* the enabling of the submit button: disabled = not all_selected
SubmitEnabled(all_selected) == all_selected

\* if not user_email: the session holds no user, or an empty one
Expired(st) == "user_email" \notin st.keys \/ st.user_email = <<>>

\* The render of questions_page up to the buttons. Without a user the page shows
\* "Session expired" and returns before it reads anything.
QuestionsRender(s, okQ, okE, change) ==
    LET expired == Expired(sess[s])
        fq == IF expired THEN [rows |-> <<>>, cache |-> cacheQ]
              ELSE FetchQuestions(okQ)
        fe == IF expired THEN [rows |-> <<>>, cache |-> cacheEmp]
              ELSE FetchEmployees(okE)
        active == ActiveQuestions(fq.rows)
        names == OtherNames(fe.rows, sess[s].user_email)
        shown == ~expired /\ fq.rows # <<>> /\ names # {}
        sel0 == IF "selections" \notin sess[s].keys
                THEN [qid \in {Str(active[i].question_id) : i \in 1..Len(active)}
                        |-> None]
                ELSE sess[s].selections
        sel == Selectboxes(sel0, active, names, change)
    IN  [shown |-> shown, cacheQ |-> fq.cache, cacheEmp |-> fe.cache,
         active |-> active, names |-> names,
         selections |-> IF shown THEN sel ELSE sess[s].selections,
         all_selected |-> shown /\ AllSelected(sel),
         unanswered_count |-> IF shown THEN UnansweredCount(sel) ELSE 0,
         msg |-> IF expired THEN "session_expired"
                 ELSE IF fq.rows = <<>> THEN "no_questions"
                 ELSE IF names = {} THEN "no_others"
                 ELSE IF ~AllSelected(sel) THEN "remaining"
                 ELSE ""]

OnQuestions(s) ==
    /\ sess[s].page = "questions"
    /\ sess[s].pc = "idle"

\* The session after a render: the selections are stored once the render reaches
\* the selectboxes; shown, remaining and submit_enabled are what the page displays.
Rendered(st, r) ==
    IF r.shown
    THEN [st EXCEPT !.keys = @ \cup {"selections"}, !.selections = r.selections,
                    !.shown = TRUE, !.remaining = r.unanswered_count,
                    !.submit_enabled = SubmitEnabled(r.all_selected),
                    !.msg = r.msg]
    ELSE [st EXCEPT !.shown = FALSE, !.remaining = 0, !.submit_enabled = FALSE,
                    !.msg = r.msg]

\* A script run with no input: the rerun after login, or a refresh of the page.
Render(s, okQ, okE) ==
    /\ OnQuestions(s)
    /\ LET r == QuestionsRender(s, okQ, okE, <<>>)
       IN  /\ cacheQ' = r.cacheQ
           /\ cacheEmp' = r.cacheEmp
           /\ sess' = [sess EXCEPT ![s] = Rendered(sess[s], r)]
    /\ UNCHANGED <<sheets, employees, questions, responses, submitted>>

\* The user picks `choice` in the selectbox of question `qid`.
Select(s, qid, choice, okQ, okE) ==
    /\ OnQuestions(s)
    /\ sess[s].shown
    /\ "selections" \in sess[s].keys
    /\ qid \in DOMAIN sess[s].selections
    /\ LET r == QuestionsRender(s, okQ, okE, <<qid, choice>>)
       IN  /\ choice \in r.names \cup {None}
           /\ cacheQ' = r.cacheQ
           /\ cacheEmp' = r.cacheEmp
           /\ sess' = [sess EXCEPT ![s] = Rendered(sess[s], r)]
    /\ UNCHANGED <<sheets, employees, questions, responses, submitted>>

\* Faulty variant: Back also forgets the user.
BackEffectClearUser(st) ==
    [st EXCEPT !.keys = @ \ {"selections", "user_email", "user_name"},
               !.selections = <<>>, !.user_email = <<>>, !.user_name = "",
               !.page = "login", !.shown = FALSE, !.remaining = 0,
               !.submit_enabled = FALSE, !.msg = ""]

\* What the Back button does to the session
BackEffect(st) ==
    [st EXCEPT !.keys = @ \ {"selections"}, !.selections = <<>>,
               !.page = "login", !.shown = FALSE, !.remaining = 0,
               !.submit_enabled = FALSE, !.msg = ""]

\* The user clicks "Back to Login", or "Go to Login" on the page of an expired
\* session, which sets page = 'login' and nothing else.
Back(s, okQ, okE) ==
    /\ OnQuestions(s)
    /\ sess[s].shown \/ sess[s].msg = "session_expired"
    /\ LET r == QuestionsRender(s, okQ, okE, <<>>)
       IN  /\ cacheQ' = r.cacheQ
           /\ cacheEmp' = r.cacheEmp
           /\ sess' = [sess EXCEPT ![s] =
                         IF r.shown /\ sess[s].shown
                         THEN BackEffect(Rendered(sess[s], r))
                         ELSE IF r.msg = "session_expired"
                                 /\ sess[s].msg = "session_expired"
                         THEN [Rendered(sess[s], r) EXCEPT !.page = "login",
                                                           !.msg = ""]
                         ELSE Rendered(sess[s], r)]
    /\ UNCHANGED <<sheets, employees, questions, responses, submitted>>

\* The records built by the submit branch
BuildResponses(active, sel, user_email, user_name) ==
    [i \in 1..Len(active) |->
        [email |-> user_email, name |-> user_name,
         question_id |-> active[i].question_id,
         name_of_person_in_response |-> SelGet(sel, Str(active[i].question_id))]]

\* append_responses: the rows written by ws.append_rows
AppendRows(recs) == [i \in 1..Len(recs) |-> ResponseRow(recs[i])]

\* Faulty variant: the rows are inserted above the rows of the table.
InsertRowsAtTop(table, rows) == rows \o table

\* ws.append_rows(rows): the worksheet after the call
AppendRowsTo(table, rows) == table \o rows

\* Faulty variant: the result of append_responses is ignored.
AfterAppendAlways(st, response_saved) == [st EXCEPT !.pc = "scan"]

\* if not response_saved: the error and return; otherwise on to
\* update_employee_status
AfterAppend(st, response_saved) ==
    IF response_saved THEN [st EXCEPT !.pc = "scan"]
    ELSE [st EXCEPT !.msg = "save_failed"]

\* The user clicks "Submit Survey": the render, the records and append_responses.
\* The script goes on to update_employee_status when append_responses returned
\* True, and returns when it returned False.
Submit(s, okQ, okE, okA) ==
    /\ OnQuestions(s)
    /\ sess[s].shown
    /\ sess[s].submit_enabled
    /\ Len(responses) < MaxBatches * Len(ActiveQuestions(questions))
    /\ LET r == QuestionsRender(s, okQ, okE, <<>>)
           recs == BuildResponses(r.active, r.selections,
                                  sess[s].user_email, sess[s].user_name)
       IN  IF r.shown /\ r.all_selected
           THEN /\ IF okA
                   THEN /\ responses' = AppendRowsTo(responses, AppendRows(recs))
                        /\ cacheQ' = <<>>
                        /\ cacheEmp' = <<>>
                   ELSE /\ responses' = responses
                        /\ cacheQ' = r.cacheQ
                        /\ cacheEmp' = r.cacheEmp
                /\ sess' = [sess EXCEPT
                              ![s] = AfterAppend(Rendered(sess[s], r), okA)]
           ELSE /\ responses' = responses
                /\ cacheQ' = r.cacheQ
                /\ cacheEmp' = r.cacheEmp
                /\ sess' = [sess EXCEPT ![s] = Rendered(sess[s], r)]
    /\ UNCHANGED <<sheets, employees, questions, submitted>>

\* Faulty variant: the user is dropped on the way to the success page.
ToSuccessClearUser(st) ==
    [st EXCEPT !.page = "success", !.pc = "idle", !.idx = 0, !.shown = FALSE,
               !.remaining = 0, !.submit_enabled = FALSE, !.msg = "",
               !.keys = @ \ {"user_email", "user_name"},
               !.user_email = <<>>, !.user_name = ""]

\* The end of the submit branch: page = 'success' and st.rerun()
ToSuccess(st) ==
    [st EXCEPT !.page = "success", !.pc = "idle", !.idx = 0, !.shown = FALSE,
               !.remaining = 0, !.submit_enabled = FALSE, !.msg = ""]

\* the history entry of a submission that reached the success page
Submission(st, status_updated) ==
    [email |-> Norm(st.user_email), status_updated |-> status_updated]

\* update_employee_status: get_sheet and ws.get_all_records, then the scan. A
\* failed read and an email that no row carries both return False.
StatusScan(s, ok) ==
    /\ sess[s].pc = "scan"
    /\ LET idx == IF ok THEN ScanIndex(employees, sess[s].user_email) ELSE 0
       IN  IF idx = 0
           THEN /\ sess' = [sess EXCEPT ![s] = ToSuccess(sess[s])]
                /\ submitted' = submitted \cup {Submission(sess[s], FALSE)}
           ELSE /\ sess' = [sess EXCEPT ![s].pc = "write", ![s].idx = idx]
                /\ submitted' = submitted
    /\ UNCHANGED <<sheets, employees, questions, responses, cacheEmp, cacheQ>>

\* Faulty variant: a failed update_cell stops the script on the questions page.
StatusWriteStop(s, ok) ==
    /\ sess[s].pc = "write"
    /\ IF ok
       THEN /\ employees' = UpdateCell(employees, sess[s].idx)
            /\ sess' = [sess EXCEPT ![s].pc = "clear"]
       ELSE /\ employees' = employees
            /\ sess' = [sess EXCEPT ![s].pc = "idle", ![s].idx = 0]
    /\ UNCHANGED <<sheets, questions, responses, cacheEmp, cacheQ, submitted>>

\* update_employee_status: ws.update_cell(idx, 3, 'yes'); a failed call returns False
StatusWrite(s, ok) ==
    /\ sess[s].pc = "write"
    /\ IF ok
       THEN /\ employees' = UpdateCell(employees, sess[s].idx)
            /\ sess' = [sess EXCEPT ![s].pc = "clear"]
            /\ submitted' = submitted
       ELSE /\ employees' = employees
            /\ sess' = [sess EXCEPT ![s] = ToSuccess(sess[s])]
            /\ submitted' = submitted \cup {Submission(sess[s], FALSE)}
    /\ UNCHANGED <<sheets, questions, responses, cacheEmp, cacheQ>>

\* update_employee_status: st.cache_data.clear() and return True, then the
\* navigation to the success page
StatusClear(s) ==
    /\ sess[s].pc = "clear"
    /\ cacheEmp' = <<>>
    /\ cacheQ' = <<>>
    /\ submitted' = submitted \cup {Submission(sess[s], TRUE)}
    /\ sess' = [sess EXCEPT ![s] = ToSuccess(sess[s])]
    /\ UNCHANGED <<sheets, employees, questions, responses>>

-----------------------------------------------------------------------------
(* success_page *)

\* Faulty variant: the selections are left in the session.
ReturnToLoginKeepSelections(s) ==
    /\ sess[s].page = "success"
    /\ sess[s].pc = "idle"
    /\ sess' = [sess EXCEPT
                 ![s].keys = @ \ {"user_email", "user_name"},
                 ![s].user_email = <<>>,
                 ![s].user_name = "",
                 ![s].page = "login"]
    /\ UNCHANGED <<sheets, employees, questions, responses, cacheEmp, cacheQ, submitted>>

\* The user clicks "Return to Login".
ReturnToLogin(s) ==
    /\ sess[s].page = "success"
    /\ sess[s].pc = "idle"
    /\ sess' = [sess EXCEPT
                 ![s].keys = @ \ {"user_email", "user_name", "selections"},
                 ![s].user_email = <<>>,
                 ![s].user_name = "",
                 ![s].selections = <<>>,
                 ![s].page = "login"]
    /\ UNCHANGED <<sheets, employees, questions, responses, cacheEmp, cacheQ, submitted>>

-----------------------------------------------------------------------------
(* The time-to-live of the two cache entries *)

ExpireEmployees ==
    /\ cacheEmp # <<>>
    /\ cacheEmp' = <<>>
    /\ UNCHANGED <<sheets, employees, questions, responses, cacheQ, sess, submitted>>

ExpireQuestions ==
    /\ cacheQ # <<>>
    /\ cacheQ' = <<>>
    /\ UNCHANGED <<sheets, employees, questions, responses, cacheEmp, sess, submitted>>

-----------------------------------------------------------------------------
(* Specifications *)

\* st.session_state of a new session, before its first script run: no page yet.
\* `keys` are the keys user_email, user_name and selections that the dictionary
\* holds; the value of a key that is not in it is a filler. report, status_list
\* and logout are what admin_dashboard draws. pc and idx are the position of the running script in the submit
\* branch; shown, remaining, submit_enabled and msg are what the page displays.
NewSession ==
    [sheets_initialized |-> FALSE, page |-> None, keys |-> {},
     user_email |-> <<>>, user_name |-> "",
     selections |-> <<>>, pc |-> "idle", idx |-> 0,
     shown |-> FALSE, remaining |-> 0, submit_enabled |-> FALSE, msg |-> "",
     report |-> <<>>, status_list |-> <<>>, logout |-> FALSE]

InitWith(stores) ==
    /\ \E st \in stores : /\ employees = st.employees
                          /\ questions = st.questions
                          /\ sheets = st.sheets
    /\ responses = <<>>
    /\ cacheEmp = <<>>
    /\ cacheQ = <<>>
    /\ sess = [s \in Sessions |-> NewSession]
    /\ submitted = {}

Init == InitWith(Stores)

InitSolo == InitWith(SoloStores)

\* The outcomes of a cached read: a cache hit reads nothing, a miss reads the
\* store, which answers or (where reads may fail) raises.
ReadOutcomes(cache, reads) == IF cache = <<>> THEN reads ELSE {TRUE}

\* The names of the rosters
AllNames == {"Jane Doe", "John Smith"}

\* The script runs of session s. `reads` are the outcomes of fetch_employees and
\* fetch_questions on a cache miss; append_rows, the scan and update_cell of a
\* submit succeed or fail in every specification.
SessionStep(s, reads) ==
    \/ \E ok \in BOOLEAN : InitializeSheets(s, ok)
    \/ \E email \in EmailInputs, ok \in ReadOutcomes(cacheEmp, reads) :
          Login(s, email, ok)
    \/ \E okQ \in ReadOutcomes(cacheQ, reads), okE \in ReadOutcomes(cacheEmp, reads) :
          Render(s, okQ, okE)
    \/ \E qid \in DOMAIN sess[s].selections, choice \in AllNames \cup {None},
          okQ \in ReadOutcomes(cacheQ, reads),
          okE \in ReadOutcomes(cacheEmp, reads) :
          Select(s, qid, choice, okQ, okE)
    \/ \E okQ \in ReadOutcomes(cacheQ, reads), okE \in ReadOutcomes(cacheEmp, reads) :
          Back(s, okQ, okE)
    \/ \E okQ \in ReadOutcomes(cacheQ, reads), okE \in ReadOutcomes(cacheEmp, reads),
          okA \in BOOLEAN : Submit(s, okQ, okE, okA)
    \/ \E ok \in BOOLEAN : StatusScan(s, ok)
    \/ \E ok \in BOOLEAN : StatusWrite(s, ok)
    \/ StatusClear(s)
    \/ ReturnToLogin(s)

\* The sessions together; fetch_employees and fetch_questions reach the store
Next ==
    \/ \E s \in Sessions : SessionStep(s, {TRUE})
    \/ ExpireEmployees
    \/ ExpireQuestions

\* One session alone; every store call may fail
NextSolo ==
    \/ SessionStep(1, BOOLEAN)
    \/ ExpireEmployees
    \/ ExpireQuestions

Spec == Init /\ [][Next]_vars

SpecSolo == InitSolo /\ [][NextSolo]_vars

-----------------------------------------------------------------------------
(* admin_dashboard: a function of the file that main never routes to *)

\* fetch_responses: not cached; a failed read returns []
FetchResponses(ok) == IF ok THEN responses ELSE <<>>

\* vote_counts of one question: the names voted for, each with its count (the
\* page lists them by descending count)
VoteCounts(resp, qid) ==
    LET hits == {i \in 1..Len(resp) : resp[i][3] = qid}
    IN  [n \in {resp[i][4] : i \in hits} |->
            Cardinality({i \in hits : resp[i][4] = n})]

\* the Report tab: the vote counts of the first six questions
Report(qs, resp) ==
    [i \in 1..Len(ActiveQuestions(qs)) |->
        VoteCounts(resp, ActiveQuestions(qs)[i].question_id)]

\* the Status tab: one line per employee, Completed when status.lower() == 'yes'
StatusList(rows) ==
    [i \in 1..Len(rows) |->
        [name |-> rows[i].name, email |-> rows[i].email,
         completed |-> IsCompleted(rows[i])]]

\* One run of admin_dashboard. With no responses the function returns inside the
\* Report tab: the Status tab and the Logout button are not reached.
AdminDashboard(s, okQ, okR, okE) ==
    LET fq == FetchQuestions(okQ)
        resp == FetchResponses(okR)
        fe == FetchEmployees(okE)
    IN  /\ cacheQ' = fq.cache
        /\ IF resp = <<>>
           THEN /\ cacheEmp' = cacheEmp
                /\ sess' = [sess EXCEPT ![s].msg = "no_responses",
                                         ![s].report = <<>>,
                                         ![s].status_list = <<>>,
                                         ![s].logout = FALSE]
           ELSE /\ cacheEmp' = fe.cache
                /\ sess' = [sess EXCEPT ![s].msg = "",
                                         ![s].report = Report(fq.rows, resp),
                                         ![s].status_list = StatusList(fe.rows),
                                         ![s].logout = TRUE]
        /\ UNCHANGED <<sheets, employees, questions, responses, submitted>>

\* The admin clicks "Logout": every key of st.session_state is deleted.
AdminLogout(s) ==
    /\ sess[s].logout
    /\ sess' = [sess EXCEPT ![s] = NewSession]
    /\ UNCHANGED <<sheets, employees, questions, responses, cacheEmp, cacheQ,
                   submitted>>

\* The rosters the admin view is run on: the seed roster with every combination
\* of statuses, the edited roster and the roster of one employee
AdminRosters ==
    { [i \in 1..2 |-> [SeedEmployees[i] EXCEPT !.status = st[i]]] :
         st \in [1..2 -> {"no", "yes", "YES"}] }
    \cup {EditedEmployees, LoneEmployee}

\* the rows of one submission of Jane Doe and of one of John Smith
JaneRows ==
    << <<JaneEmail, "Jane Doe", 1, "John Smith">>,
       <<JaneEmail, "Jane Doe", 2, "John Smith">> >>

JohnRows ==
    << <<JohnEmail, "John Smith", 1, "Jane Doe">>,
       <<JohnEmail, "John Smith", 2, "Jane Doe">> >>

\* The contents of the responses table the admin view is run on
AdminResponses == {<<>>, JaneRows, JaneRows \o JohnRows}

InitAdmin ==
    /\ employees \in AdminRosters
    /\ questions = QuestionRows(2)
    /\ responses \in AdminResponses
    /\ sheets = SheetNames
    /\ cacheEmp = <<>>
    /\ cacheQ = <<>>
    /\ sess = [s \in Sessions |-> NewSession]
    /\ submitted = {}

\* The admin's session; every store call may fail
NextAdmin ==
    \/ \E okQ \in ReadOutcomes(cacheQ, BOOLEAN), okR \in BOOLEAN,
          okE \in ReadOutcomes(cacheEmp, BOOLEAN) : AdminDashboard(1, okQ, okR, okE)
    \/ AdminLogout(1)

SpecAdmin == InitAdmin /\ [][NextAdmin]_vars

-----------------------------------------------------------------------------
(* Vocabulary of the properties *)

\* the number of active questions, as the glossary defines them: the first six
ActiveCount == IF Len(questions) < 6 THEN Len(questions) ELSE 6

\* the responses table cut into consecutive sets of ActiveCount rows
NumSets == IF ActiveCount = 0 THEN 0 ELSE Len(responses) \div ActiveCount

ResponseSet(k) == SubSeq(responses, (k - 1) * ActiveCount + 1, k * ActiveCount)

\* the full response sets whose respondent is the employee with email e
SetsOf(e) ==
    {k \in 1..NumSets :
        \A i \in 1..ActiveCount : Norm(ResponseSet(k)[i][1]) = Norm(e)}

\* the status of the employee with email e is completed in the employees table
TableCompleted(e) ==
    \E i \in 1..Len(employees) :
        /\ Norm(employees[i].email) = Norm(e)
        /\ LowerTok(employees[i].status) = "yes"

\* session s submits the login form with email e in this step
LoginAttempt(s, e) == \E ok \in BOOLEAN : Login(s, e, ok)

\* the attempt of session s was rejected: an error is shown, the page stays login
\* and the attempt stored no user
Rejected(s) ==
    /\ sess'[s].msg \in {"enter_email", "invalid_domain", "not_found",
                         "already_completed"}
    /\ sess'[s].page = "login"
    /\ sess'[s].keys = sess[s].keys
    /\ sess'[s].user_email = sess[s].user_email
    /\ sess'[s].user_name = sess[s].user_name

-----------------------------------------------------------------------------
(* C1 *)

\* C1: at-most-once submission. In every reachable state the responses table
\* holds at most one full response set whose respondent is a given employee.
C1_AtMostOnce ==
    \A i \in 1..Len(employees) :
        Cardinality(SetsOf(employees[i].email)) <= 1

-----------------------------------------------------------------------------
(* C2 *)

\* C2: every login attempt with a correct-domain email that matches an employee
\* whose status in the employees table is completed at the moment of the attempt
\* is rejected: the session stays on the login page and no user is bound by it.
C2_CompletedRejected ==
    [][\A s \in Sessions, e \in EmailInputs :
          (EmailValid(e) /\ TableCompleted(e) /\ LoginAttempt(s, e))
              => Rejected(s)]_vars

-----------------------------------------------------------------------------
(* C3 *)

\* a login attempt with the email of a submission in hist is rejected
LaterLoginsRejected(hist) ==
    \A r \in hist, s \in Sessions, e \in EmailInputs :
        (r.email = Norm(e) /\ EmailValid(e) /\ LoginAttempt(s, e)) => Rejected(s)

\* C3: after a successful submission (the session moved from questions to
\* success) the submitter's status in the employees table is completed, and every
\* later login attempt with the same email, from any session, is rejected.
C3_AfterSubmission ==
    /\ [](\A r \in submitted : TableCompleted(r.email))
    /\ [][LaterLoginsRejected(submitted)]_vars

-----------------------------------------------------------------------------
(* C4 *)

\* the rows appended by this step
NewRows == SubSeq(responses', Len(responses) + 1, Len(responses'))

\* C4: a submit appends exactly N = min(6, number of questions) records in one
\* batch, one per active question, with pairwise distinct question_ids that are
\* the active question ids, and with the email and name of the logged-in user;
\* the table never holds a partial set.
C4_FullSets ==
    /\ [](/\ Len(responses) = NumSets * ActiveCount
          /\ \A k \in 1..NumSets : \A i \in 1..ActiveCount :
                /\ ResponseSet(k)[i][3] = questions[i].question_id
                /\ ResponseSet(k)[i][1] = ResponseSet(k)[1][1]
                /\ ResponseSet(k)[i][2] = ResponseSet(k)[1][2]
                /\ \A j \in 1..ActiveCount :
                      i # j => ResponseSet(k)[i][3] # ResponseSet(k)[j][3])
    /\ [][responses' # responses =>
            \E s \in Sessions :
                /\ sess[s].page = "questions"
                /\ sess'[s].pc = "scan"
                /\ SubSeq(responses', 1, Len(responses)) = responses
                /\ Len(NewRows) = ActiveCount
                /\ \A i \in 1..ActiveCount :
                      /\ NewRows[i][1] = sess[s].user_email
                      /\ NewRows[i][2] = sess[s].user_name
                      /\ NewRows[i][3] = questions[i].question_id]_vars

\* seven questions in the table and one set of six records appended
C4_Witness ==
    /\ Len(questions) = 7
    /\ Len(responses) = 6
    /\ \E s \in Sessions : sess[s].page = "success"

-----------------------------------------------------------------------------
(* C5 *)

\* C5 as stated: in every record of the responses table the nominated name
\* differs from the respondent's own name.
C5_NomineeNotOwnName ==
    \A i \in 1..Len(responses) : responses[i][4] # responses[i][2]

\* the names of the roster rows whose email is not the email e
NamesOfOthers(e) ==
    {employees[j].name : j \in {k \in 1..Len(employees) :
                                   Norm(employees[k].email) # Norm(e)}}

\* C5 amended: the nominated name is the name of a roster row whose email is not
\* the respondent's; it differs from the respondent's own name whenever no other
\* row carries that name.
C5_NomineeIsAnother ==
    \A i \in 1..Len(responses) :
        /\ responses[i][4] \in NamesOfOthers(responses[i][1])
        /\ responses[i][2] \notin NamesOfOthers(responses[i][1])
              => responses[i][4] # responses[i][2]

\* a record whose nominee carries the respondent's name, and one whose does not
C5_Witness ==
    /\ \E i \in 1..Len(responses) : responses[i][4] = responses[i][2]
    /\ \E i \in 1..Len(responses) : responses[i][4] # responses[i][2]

-----------------------------------------------------------------------------
(* C6 *)

\* the active questions whose selection is null in session state st
NullSelections(st) ==
    {i \in 1..ActiveCount :
        LET qid == Str(questions[i].question_id)
        IN  qid \notin DOMAIN st.selections \/ st.selections[qid] = None}

\* C6: the session moves from questions to success, and records are appended, only
\* when every active question has a non-null selection; the remaining count is the
\* number of null selections, submit is disabled when it is nonzero and enabled
\* when it is zero, and no appended record has a null nominee.
C6_AllAnswered ==
    /\ [](\A s \in Sessions : sess[s].shown =>
            /\ sess[s].remaining = Cardinality(NullSelections(sess[s]))
            /\ sess[s].submit_enabled <=> (sess[s].remaining = 0))
    /\ [](\A i \in 1..Len(responses) : responses[i][4] # None)
    /\ [](\A s \in Sessions :
            sess[s].pc # "idle" => NullSelections(sess[s]) = {})
    /\ [][/\ responses' # responses =>
               \E s \in Sessions : /\ sess[s].pc = "idle"
                                   /\ sess'[s].pc = "scan"
                                   /\ NullSelections(sess[s]) = {}
          /\ \A s \in Sessions :
               (sess[s].page = "questions" /\ sess'[s].page = "success")
                   => sess[s].pc # "idle" /\ NullSelections(sess[s]) = {}]_vars

\* one set of six records is in the table, and a session shows six questions of
\* which five are answered, with submit disabled
C6_Witness ==
    /\ ActiveCount = 6
    /\ NumSets >= 1
    /\ \E s \in Sessions : /\ sess[s].shown
                           /\ sess[s].remaining = 1
                           /\ ~sess[s].submit_enabled
                           /\ sess[s].msg = "remaining"

-----------------------------------------------------------------------------
(* C7 *)

\* C7: a login with an email that is empty or lacks the substring
\* '@keydynamicssolutions' is rejected with an error and nothing changes: the page
\* stays login, no user is stored, and the store and the caches are untouched.
C7_InvalidEmail ==
    [][\A s \in Sessions, e \in EmailInputs :
          ((e = <<>> \/ ~Contains(e, <<"@", "keydynamicssolutions">>))
                /\ LoginAttempt(s, e))
              => /\ sess'[s].msg \in {"enter_email", "invalid_domain"}
                 /\ sess'[s] = [sess[s] EXCEPT !.msg = sess'[s].msg]
                 /\ UNCHANGED <<employees, questions, responses, cacheEmp,
                                cacheQ>>]_vars

\* a session turned down for the domain, with no employee list read so far
C7_Witness ==
    \E s \in Sessions :
        /\ sess[s].page = "login"
        /\ sess[s].msg = "invalid_domain"
        /\ "user_email" \notin sess[s].keys
        /\ cacheEmp = <<>>

-----------------------------------------------------------------------------
(* C8 *)

\* the set of records of session state st is in the responses table
OwnSetSaved(st) ==
    \E k \in 1..NumSets : \A i \in 1..ActiveCount :
        ResponseSet(k)[i] =
            <<st.user_email, st.user_name, questions[i].question_id,
              st.selections[Str(questions[i].question_id)]>>

\* session s clicks submit and append_responses fails
FailedAppend(s) == \E okQ, okE \in BOOLEAN : Submit(s, okQ, okE, FALSE)

\* C8: update_employee_status is called only after append_responses of the same
\* submit returned success; when the append fails no status cell is written, no
\* record is appended, the caches are not cleared, and the session stays on the
\* questions page with its user and selections.
C8_AppendThenStatus ==
    /\ [](\A s \in Sessions : sess[s].pc # "idle" => OwnSetSaved(sess[s]))
    /\ [][/\ employees' # employees => \E s \in Sessions : sess[s].pc = "write"
          /\ \A s \in Sessions :
               FailedAppend(s) =>
                  /\ employees' = employees
                  /\ responses' = responses
                  /\ cacheEmp' # <<>> /\ cacheQ' # <<>>
                  /\ cacheEmp # <<>> => cacheEmp' = cacheEmp
                  /\ cacheQ # <<>> => cacheQ' = cacheQ
                  /\ sess'[s].page = "questions"
                  /\ sess'[s].pc = "idle"
                  /\ sess'[s].keys = sess[s].keys
                  /\ sess'[s].user_email = sess[s].user_email
                  /\ sess'[s].user_name = sess[s].user_name
                  /\ sess'[s].selections = sess[s].selections]_vars

\* a session told that the save failed, still on the questions page with every
\* question answered, and none of its records in the table
C8_Witness ==
    \E s \in Sessions :
        /\ sess[s].page = "questions"
        /\ sess[s].msg = "save_failed"
        /\ sess[s].submit_enabled
        /\ SetsOf(sess[s].user_email) = {}

-----------------------------------------------------------------------------
(* C9 *)

\* C9: when append_responses succeeded and update_employee_status then fails, the
\* session still moves to the success page, the appended records stay in the
\* responses table, and the employees table is left as it was.
C9_StatusFailure ==
    /\ [](\A s \in Sessions :
            sess[s].page = "success" => SetsOf(sess[s].user_email) # {})
    /\ [][\A s \in Sessions :
            (sess[s].pc \in {"scan", "write"} /\ sess'[s].pc = "idle")
                => /\ sess'[s].page = "success"
                   /\ employees' = employees
                   /\ responses' = responses
                   /\ OwnSetSaved(sess[s])]_vars

\* a session on the success page after a failed status update: its records are in
\* the table and its status is still pending
C9_Witness ==
    \E s \in Sessions :
        /\ sess[s].page = "success"
        /\ [email |-> Norm(sess[s].user_email), status_updated |-> FALSE]
              \in submitted
        /\ ~TableCompleted(sess[s].user_email)
        /\ SetsOf(sess[s].user_email) # {}

-----------------------------------------------------------------------------
(* C10 *)

\* session s leaves the questions page for the login page in this step
BackStep(s) == sess[s].page = "questions" /\ sess'[s].page = "login"

\* C10 as stated: the back action moves the session to login, discards the
\* selections and retains no user binding.
C10_BackUnbinds ==
    [][\A s \in Sessions :
          BackStep(s) => /\ "selections" \notin sess'[s].keys
                         /\ "user_email" \notin sess'[s].keys
                         /\ "user_name" \notin sess'[s].keys]_vars

\* C10 amended: the back action moves the session to login and discards the
\* selections; user_email and user_name stay in the session as they were.
C10_BackKeepsUser ==
    [][\A s \in Sessions :
          BackStep(s) => /\ "selections" \notin sess'[s].keys
                         /\ {"user_email", "user_name"} \subseteq sess'[s].keys
                         /\ sess'[s].user_email = sess[s].user_email
                         /\ sess'[s].user_name = sess[s].user_name]_vars

\* a session back on the login page that still holds a user
C10_Witness ==
    \E s \in Sessions :
        /\ sess[s].page = "login"
        /\ "user_email" \in sess[s].keys
        /\ "selections" \notin sess[s].keys

-----------------------------------------------------------------------------
(* C11 *)

\* session s enters the questions page through a login in this step
LoginEnters(s) == sess[s].page = "login" /\ sess'[s].page = "questions"

\* the first row of the employees table whose email matches the typed email e
MatchedRow(e) == employees[FindEmployee(employees, e)]

\* C11: every time a session enters the questions page through a successful
\* login, user_email and user_name are those of the matched employee row and no
\* selection is in the session, so that the page starts from selections that are
\* all None: no selection made before that login survives into it.
C11_FreshSelections ==
    /\ [](\A s \in Sessions :
            sess[s].page = "login" => "selections" \notin sess[s].keys)
    /\ [][\A s \in Sessions :
            /\ LoginEnters(s) =>
                  /\ "selections" \notin sess'[s].keys
                  /\ \E e \in EmailInputs :
                        /\ LoginAttempt(s, e)
                        /\ FindEmployee(employees, e) # 0
                        /\ sess'[s].user_email = MatchedRow(e).email
                        /\ sess'[s].user_name = MatchedRow(e).name
            /\ ("selections" \notin sess[s].keys
                   /\ "selections" \in sess'[s].keys) =>
                  /\ DOMAIN sess'[s].selections =
                        {Str(questions[i].question_id) : i \in 1..ActiveCount}
                  /\ \A q \in DOMAIN sess'[s].selections :
                        sess'[s].selections[q] = None]_vars

\* a session that submitted a set, returned to login, logged in again and is shown
\* the questions with nothing selected
C11_Witness ==
    \E s \in Sessions :
        /\ responses # <<>>
        /\ sess[s].page = "questions"
        /\ sess[s].shown
        /\ sess[s].remaining = ActiveCount
        /\ \A q \in DOMAIN sess[s].selections : sess[s].selections[q] = None

-----------------------------------------------------------------------------
(* C12 *)

\* session s is at rest on a page that has been drawn
AtRest(s) ==
    /\ sess[s].pc = "idle"
    /\ \/ sess[s].page \in {"login", "success"}
       \/ sess[s].shown
       \/ sess[s].msg \in {"no_questions", "no_others"}

\* a click of session s on a button of its page that takes it to the login page
GoesToLogin(s) ==
    /\ \/ \E okQ, okE \in BOOLEAN : Back(s, okQ, okE)
       \/ ReturnToLogin(s)
    /\ sess'[s].page = "login"

\* C12: the session state machine has no terminal state. Every new session starts
\* on login, and in every reachable state a session at rest on another page
\* (the questions page with an empty question list or with no other employee
\* included) is offered an action that leads back to login.
C12_NoTerminal ==
    /\ [][\A s \in Sessions :
            sess[s].page = None => sess'[s].page \in {None, "login"}]_vars
    /\ [](\A s \in Sessions :
            (AtRest(s) /\ sess[s].page # "login") => ENABLED GoesToLogin(s))

-----------------------------------------------------------------------------
(* C13 *)

\* session s runs initialize_sheets in this step
InitializeStep(s) == \E ok \in BOOLEAN : InitializeSheets(s, ok)

\* the rows of worksheet n
Table(n) ==
    CASE n = "employee_details" -> employees
      [] n = "questions" -> questions
      [] n = "employee_responses" -> responses

\* the rows of worksheet n after this step
TableAfter(n) ==
    CASE n = "employee_details" -> employees'
      [] n = "questions" -> questions'
      [] n = "employee_responses" -> responses'

\* the seed rows initialize_sheets gives worksheet n
SeedRows(n) ==
    CASE n = "employee_details" -> SeedEmployees
      [] n = "questions" -> QuestionRows(6)
      [] n = "employee_responses" -> <<>>

\* C13: table initialization is idempotent. A run of initialize_sheets on a store
\* where the three tables exist leaves every table unchanged, and a table that is
\* absent on a run that reaches the store is created with its header and seed rows.
C13_Idempotent ==
    [][\A s \in Sessions :
          InitializeStep(s) =>
             /\ \A n \in sheets : n \in sheets' /\ TableAfter(n) = Table(n)
             /\ InitializeSheets(s, TRUE) =>
                   \A n \in SheetNames \ sheets :
                       n \in sheets' /\ TableAfter(n) = SeedRows(n)]_vars

-----------------------------------------------------------------------------
(* C14 *)

\* C14: the responses table is append-only. Every step of every session leaves
\* the rows the table had in place, unchanged and in order, so the table of any
\* earlier state is a prefix of the table of any later state.
C14_AppendOnly ==
    [][/\ Len(responses') >= Len(responses)
       /\ SubSeq(responses', 1, Len(responses)) = responses]_vars

\* two sets in the table, appended by two submissions with different answers
C14_Witness ==
    /\ NumSets = 2
    /\ ResponseSet(1) # ResponseSet(2)

-----------------------------------------------------------------------------
(* C15 *)

\* the employees table after this step has the rows, names and emails it had, and
\* no completed status went back to pending
RosterKept ==
    /\ Len(employees') = Len(employees)
    /\ \A i \in 1..Len(employees) :
          /\ employees'[i].name = employees[i].name
          /\ employees'[i].email = employees[i].email
          /\ IsCompleted(employees[i]) => IsCompleted(employees'[i])

\* C15: the only mutation of the employees table is the write of 'yes' to the
\* status cell of the row whose email matches the submitter, after the
\* submitter's responses were appended. No row is added, removed or renamed, no
\* other employee's row is touched, and a completed status never returns to
\* pending.
C15_OnlyStatusCompleted ==
    [][/\ RosterKept
       /\ employees' # employees =>
             \E s \in Sessions, i \in 1..Len(employees) :
                /\ sess[s].pc = "write"
                /\ Norm(employees[i].email) = Norm(sess[s].user_email)
                /\ employees' = [employees EXCEPT ![i].status = "yes"]
                /\ OwnSetSaved(sess[s])]_vars

\* one employee was marked completed and the other row is as it was seeded
C15_Witness ==
    /\ Len(employees) = 2
    /\ employees[2].status = "yes"
    /\ employees[1] = SeedEmployees[1]
    /\ \E s \in Sessions : sess[s].page = "success"

-----------------------------------------------------------------------------
(* C16 *)

\* session s calls fetch_employees in this step
ReadsEmployees(s) ==
    \/ \E e \in EmailInputs : EmailValid(e) /\ LoginAttempt(s, e)
    \/ \E okQ, okE \in BOOLEAN :
          \/ Render(s, okQ, okE)
          \/ Back(s, okQ, okE)
          \/ \E okA \in BOOLEAN : Submit(s, okQ, okE, okA)
          \/ \E qid \in DOMAIN sess[s].selections, choice \in AllNames \cup {None} :
                Select(s, qid, choice, okQ, okE)

\* a write of session s fails in this step: append_rows, or the read or the cell
\* write of update_employee_status
FailedWrite(s) ==
    \/ FailedAppend(s)
    \/ StatusScan(s, FALSE)
    \/ StatusWrite(s, FALSE)

\* append_responses or update_employee_status of session s returns True in this
\* step
WriteReturnsTrue(s) ==
    \/ \E okQ, okE \in BOOLEAN : Submit(s, okQ, okE, TRUE) /\ sess'[s].pc = "scan"
    \/ StatusClear(s)

\* C16: cache invalidation is global and immediate after any write. A
\* fetch_employees call of any session returns the employees table as it is in
\* the store, never rows read before a write; when a write returns True both
\* caches are empty; a failed write leaves the caches as they were.
C16_ImmediateInvalidation ==
    [][\A s \in Sessions :
          /\ ReadsEmployees(s) => FetchEmployees(TRUE).rows = employees
          /\ WriteReturnsTrue(s) => cacheEmp' = <<>> /\ cacheQ' = <<>>
          /\ FailedWrite(s) =>
                /\ cacheEmp' # <<>> \/ cacheEmp = <<>>
                /\ cacheQ' # <<>> \/ cacheQ = <<>>
                /\ cacheEmp # <<>> => cacheEmp' = cacheEmp
                /\ cacheQ # <<>> => cacheQ' = cacheQ]_vars

-----------------------------------------------------------------------------
(* C17 *)

\* session s runs admin_dashboard in this step and its fetch_employees call, if it
\* makes one, reads the store
AdminRun(s) ==
    /\ cacheEmp = <<>>
    /\ \E okQ, okR \in BOOLEAN : AdminDashboard(s, okQ, okR, TRUE)

\* C17: the admin view lists every employee of the employees table with an
\* indicator that is completed exactly when the status is 'yes' in any case, and
\* offers the logout action, for every content of the responses table, the empty
\* table and a failed fetch of it included.
C17_AdminStatus ==
    [][\A s \in Sessions :
          AdminRun(s) =>
             /\ Len(sess'[s].status_list) = Len(employees)
             /\ \A i \in 1..Len(employees) :
                   /\ sess'[s].status_list[i].name = employees[i].name
                   /\ sess'[s].status_list[i].email = employees[i].email
                   /\ sess'[s].status_list[i].completed
                         <=> LowerTok(employees[i].status) = "yes"
             /\ sess'[s].logout]_vars

-----------------------------------------------------------------------------
(* C18 *)

\* every set of the responses table has one respondent and is some employee's
SetsUnmixed ==
    /\ Len(responses) = NumSets * ActiveCount
    /\ \A k \in 1..NumSets :
          \E j \in 1..Len(employees) :
              \A i \in 1..ActiveCount :
                  /\ ResponseSet(k)[i][1] = employees[j].email
                  /\ ResponseSet(k)[i][2] = employees[j].name
                  /\ ResponseSet(k)[i][3] = questions[i].question_id

\* C18: concurrent submissions by two different employees do not corrupt data.
\* In every interleaving of the two sessions' append, scan, cell write and cache
\* clear in which these store calls succeed, the responses table holds both
\* complete sets, no record is lost or mixed between respondents, and both
\* statuses are completed: a cell write is never lost.
C18_ConcurrentSubmissions ==
    /\ SetsUnmixed
    /\ \A s \in Sessions :
          sess[s].pc = "clear" =>
             TableCompleted(sess[s].user_email) /\ OwnSetSaved(sess[s])
    /\ \A r1, r2 \in submitted :
          (r1.email # r2.email /\ r1.status_updated /\ r2.status_updated) =>
             /\ TableCompleted(r1.email) /\ TableCompleted(r2.email)
             /\ SetsOf(r1.email) # {} /\ SetsOf(r2.email) # {}

\* both employees have submitted from their own sessions with their status
\* updated, and the table holds the two sets
C18_Witness ==
    /\ NumSets = 2
    /\ \A s \in Sessions : sess[s].page = "success"
    /\ \E r1, r2 \in submitted :
          r1.email # r2.email /\ r1.status_updated /\ r2.status_updated

-----------------------------------------------------------------------------
(* C19 *)

\* C19: in every reachable session state, page = questions or page = success
\* implies that user_email is set, non-empty and the email of a row of the
\* employees table; the 'Session expired' branch of the questions page is never
\* reached, and every appended record carries the email of a known employee.
C19_UserBound ==
    /\ \A s \in Sessions :
          /\ sess[s].page \in {"questions", "success"} =>
                /\ "user_email" \in sess[s].keys
                /\ sess[s].user_email # <<>>
                /\ \E j \in 1..Len(employees) :
                      employees[j].email = sess[s].user_email
          /\ sess[s].msg # "session_expired"
    /\ \A i \in 1..Len(responses) :
          \E j \in 1..Len(employees) : employees[j].email = responses[i][1]

\* a session that logged in again after its submission, drawn on the questions
\* page and bound to the employee whose email the sheet stores in capitals, with
\* a set of that employee in the table
C19_Witness ==
    \E s \in Sessions :
        /\ sess[s].page = "questions"
        /\ sess[s].pc = "idle"
        /\ sess[s].shown
        /\ sess[s].remaining > 0
        /\ sess[s].user_email = EditedEmployees[1].email
        /\ SetsOf(sess[s].user_email) # {}

-----------------------------------------------------------------------------
(* C20 *)

\* C20: a failed read is never served from the cache. The empty result of a
\* failed fetch_employees or fetch_questions call is not retained: a cache entry
\* holds the table, so once the store is reachable again a login of a listed
\* employee is not rejected as 'not found' and the questions page of a store with
\* questions does not show 'no questions'.
C20_FailedReadNotCached ==
    /\ [](/\ cacheEmp # <<>> => cacheEmp[1] = employees
          /\ cacheQ # <<>> => cacheQ[1] = questions)
    /\ [][\A s \in Sessions :
            /\ \A e \in EmailInputs :
                  (Login(s, e, TRUE) /\ FindEmployee(employees, e) # 0)
                      => sess'[s].msg # "not_found"
            /\ (Render(s, TRUE, TRUE) /\ questions # <<>>)
                  => sess'[s].msg # "no_questions"]_vars

====
